---- MODULE Spec2Model ----
(***************************************************************************)
(* Spectrofluorimetre: the monochromator axis (monochromator.py) and the   *)
(* slit bank (slit.py) as state machines over their serial channel.        *)
(*                                                                         *)
(* Spec     : one Monochromator (type A kinematics) running initMotors,    *)
(*            findZero and moveToWaveLength.                               *)
(* SpecSlit : one Slit bank running findZero, moveToValue and              *)
(*            moveToPercentage.                                            *)
(*                                                                         *)
(* A line of text is a sequence of tokens; the token "," is the field      *)
(* separator, " " and "\n" are whitespace.  Time is counted in ticks: one  *)
(* pass of a polling loop (a readline bounded by the port's read timeout,  *)
(* plus the loop's sleep) takes one tick.                                  *)
(***************************************************************************)
EXTENDS Integers, Sequences, FiniteSets, TLC

(* ------------------------------ bounds --------------------------------- *)
\* the 20 s deadline of findZero / moveToWaveLength / the slit calls, in ticks
TimeoutTicks == 2
\* the 100 s deadline of initMotors, in ticks
InitTimeoutTicks == 3
\* lowest minWLStep is -StepLoMag, highest maxWLStep is StepHi
StepLoMag == 1
StepHi == 2
\* the device position is followed while |position| <= MaxDevPos
MaxDevPos == 3

(* ------------------------- calibration values -------------------------- *)
wLOffsetValue == 10
wLCoefValue == 2
InitWLValue == 0
\* where the motor stands when the program starts: not known to the program
InitDevPos == 1
\* the largest slit bank
MaxSlits == 2
\* the slit bank's calibration and the step main.py constructs it with
slitOffsetValue == 1
slitCoefValue == 2
InitSlitStep == 0

Abs(x) == IF x < 0 THEN -x ELSE x

\* a quotient rounded down instead
FloorDiv(a, b) == a \div b

\* int(a / b): Python's int() of a quotient truncates toward zero
TruncDiv(a, b) ==
  IF (a >= 0) = (b > 0) THEN Abs(a) \div Abs(b) ELSE -(Abs(a) \div Abs(b))

(* ----------------------------- text lines ------------------------------ *)
Whitespace == {" ", "\n"}

RECURSIVE LStrip(_)
LStrip(s) == IF s # <<>> /\ Head(s) \in Whitespace THEN LStrip(Tail(s)) ELSE s

RECURSIVE RStrip(_)
RStrip(s) ==
  IF s # <<>> /\ s[Len(s)] \in Whitespace THEN RStrip(SubSeq(s, 1, Len(s) - 1)) ELSE s

\* str.strip()
Strip(s) == RStrip(LStrip(s))

RECURSIVE SplitAt(_, _, _)
SplitAt(s, maxsplit, cur) ==
  IF s = <<>> THEN <<cur>>
  ELSE IF Head(s) = "," /\ maxsplit > 0
       THEN <<cur>> \o SplitAt(Tail(s), maxsplit - 1, <<>>)
       ELSE SplitAt(Tail(s), maxsplit, Append(cur, Head(s)))

\* str.split(',', maxsplit): the fields of a line, each a sequence of tokens
Split(s, maxsplit) == SplitAt(s, maxsplit, <<>>)

Handshake == <<"Monochromator Control Initialized">>

\* what serialConnection.readline().decode() can return: nothing (the read
\* timed out), an empty line, the protocol's responses, bare tokens, chatter
RawLines ==
  { <<>>,
    <<"\n">>,
    <<"MOVE", ",", "DONE", "\n">>,
    <<"ZERO", ",", "DONE", "\n">>,
    <<"ZERO", ",", "TIMEOUT", "\n">>,
    <<"ERROR", ",", "STUCK", "\n">>,
    <<"ERROR", ",", "UNKNOWN_MOTOR", ",", "WL", ",", "X", "\n">>,
    <<"MOVE", "\n">>,
    <<"ZERO", "\n">>,
    <<"ERROR", "\n">>,
    <<" ", "Monochromator Control Initialized", "\n">>,
    <<"Received", ",", "OK", "\n">> }

(* ------------------------------ outcomes ------------------------------- *)
\* an exception is its class and its message; "ok" is a normal return
Fault(kind, msg) == [kind |-> kind, msg |-> msg]
NoResult == Fault("none", <<>>)
Running == Fault("running", <<>>)
Returned == Fault("ok", <<>>)

ZeroLocalTimeout == Fault("TimeoutError", <<"Timed out waiting for ZERO,DONE">>)
ZeroDeviceTimeout == Fault("TimeoutError", <<"Reported zero-finding timeout">>)
MoveLocalTimeout == Fault("TimeoutError", <<"Timed out waiting for MOVE,DONE for WL">>)
InitLocalTimeout ==
  Fault("TimeoutError", <<"Timed out waiting for Monochromator Control Initialized">>)
IndexFault == Fault("IndexError", <<"list index out of range">>)
RangeFault(target) == Fault("ValueError", <<"New wavelength step out of bounds", target>>)
ZeroDeviceFault(parts) == Fault("RuntimeError", <<"ERROR WL: ">> \o parts[2])
MoveDeviceFault(parts) == Fault("RuntimeError", <<"ERROR WL ">> \o parts[2])

VARIABLES
  minWLStep, maxWLStep, wLOffset, wLCoef,  \* the axis's configuration
  wLStep, wLValue,                         \* the axis's step and cached wavelength
  pc,          \* "idle", or the polling loop the program is in
  op,          \* the call in progress, or the last one
  arg,         \* the call's argument (a local: gone when the call ends)
  elapsed,     \* time() - start, in ticks (a local)
  newWLStep,   \* moveToWaveLength's target step (a local)
  callWrites,  \* the commands the call has written to the serial port
  result,      \* how the call ended
  devPos,      \* the device's motor position
  zeroed,      \* a findZero has succeeded
  cleanRun,    \* every transaction since the last successful zero succeeded
  number, offsetWL, coefWL, minStep, maxStep,  \* the slit bank's configuration
  step, value, \* the slit bank's shared step and its cached value
  i,           \* the element a slit call is at (a local)
  newStep,     \* a slit move's target step (a local)
  devSlit      \* the device's slit positions, element by element

axis == <<wLStep, wLValue, zeroed, cleanRun, devPos, newWLStep>>
config == <<minWLStep, maxWLStep, wLOffset, wLCoef>>
slit == <<step, value, i, newStep, devSlit>>
slitConfig == <<number, offsetWL, coefWL, minStep, maxStep>>
call == <<pc, op, arg, elapsed, callWrites, result>>

VARIABLES
  monochromators,    \* main's two controllers, by key: their role flags and type
  stage,             \* where interactive_run is
  measure,           \* the measurement object, once constructed
  at,                \* the statement measure() is at
  measured_signal, reference_signal,  \* the measurement's two traces
  wire,              \* what went over the controllers' channels, in order
  outcome,           \* how the last constructor or measure() call ended
  calls,             \* how many times measure() was called on the measurement
  unit,              \* a controller or slit bank with floating-point calibration
  trip,              \* the last conversion or move made on it
  channel            \* the commands its last call wrote

VARIABLES
  backlog,     \* the commands the device has received and not yet finished
  inbox,       \* the lines waiting in the serial input buffer, oldest first
  asked,       \* how many MOVE commands were written on the channel
  ackOf        \* which command the line that ended the last move answered

port == <<backlog, inbox, asked, ackOf>>
kin == <<unit, trip, channel>>
bench == <<monochromators, stage, measure, at, measured_signal, reference_signal,
           wire, outcome, calls>>

vars == <<config, axis, slitConfig, slit, call, bench, kin, port>>

(* --------------------------- values and types -------------------------- *)
\* a WaveLength object, and a bare number: only the first has a .value
WaveLength(v) == [type |-> "WaveLength", value |-> v]
Number(v) == [type |-> "float", value |-> v]
NoArg == [type |-> "None", value |-> 0]

(* ------------------------- MonochromatorA kinematics ------------------- *)
getWaveLengthFromStep(s) == WaveLength(wLOffset.value + wLCoef * s)

getStepFromWL(wl) == TruncDiv(wl.value - wLOffset.value, wLCoef)

(* ------------------------------ the device ----------------------------- *)
ZeroCmd(name) == <<"ZERO", name>>
MoveCmd(name, stepCount, direction) == <<"MOVE", name, stepCount, direction>>

\* the motor position after the device has executed a command once
DeviceExec(pos, cmd) ==
  IF cmd[1] = "ZERO" THEN 0
  ELSE IF cmd[4] THEN pos + cmd[3] ELSE pos - cmd[3]

(* ----------------------- what a received line does --------------------- *)
\* findZero's handling of one stripped line: Running is "keep waiting"
ZeroLineResult(line) ==
  IF line = <<>> THEN Running
  ELSE LET parts == Split(line, 2) IN
    IF parts[1] = <<"ZERO">> /\ Len(parts) < 2 THEN IndexFault
    ELSE IF parts[1] = <<"ZERO">> /\ parts[2] = <<"DONE">> THEN Returned
    ELSE IF parts[1] = <<"ZERO">> /\ parts[2] = <<"TIMEOUT">> THEN ZeroDeviceTimeout
    ELSE IF parts[1] = <<"ERROR">>
         THEN IF Len(parts) < 2 THEN IndexFault ELSE ZeroDeviceFault(parts)
         ELSE Running

\* a moveToWaveLength that takes an ERROR line for chatter
MoveLineResultErrorIgnored(line) ==
  IF line = <<>> THEN Running
  ELSE LET parts == Split(line, 2) IN
    IF parts[1] = <<"MOVE">> /\ Len(parts) < 2 THEN IndexFault
    ELSE IF parts[1] = <<"MOVE">> /\ parts[2] = <<"DONE">> THEN Returned
    ELSE Running

\* moveToWaveLength's handling of one stripped line
MoveLineResult(line) ==
  IF line = <<>> THEN Running
  ELSE LET parts == Split(line, 2) IN
    IF parts[1] = <<"MOVE">> /\ Len(parts) < 2 THEN IndexFault
    ELSE IF parts[1] = <<"MOVE">> /\ parts[2] = <<"DONE">> THEN Returned
    ELSE IF parts[1] = <<"ERROR">>
         THEN IF Len(parts) < 2 THEN IndexFault ELSE MoveDeviceFault(parts)
         ELSE Running

\* a move that caches the wavelength it was asked for
updateWaveLengthRequested(target, wL) == wL

\* the wavelength cached after a successful move to step `target`, asked for wL
updateWaveLength(target, wL) == getWaveLengthFromStep(target)

\* the step and the wavelength a successful findZero leaves
ZeroStep == 0
ZeroValue == wLOffset

\* a step count that forgets where the axis stands
MoveStepCountAbsolute(from, to) == Abs(to)

\* a direction flag that is set when the axis is already at the target
MoveDirectionNotBelow(from, to) == to >= from

\* the direction flag and the step count of a MOVE from step `from` to `to`
MoveDirection(from, to) == to > from
MoveStepCount(from, to) == Abs(to - from)

\* a bounds test that forgets the lower bound
OutOfBoundsUpperOnly(target) == target > maxWLStep

\* moveToWaveLength's bounds test
OutOfBounds(target) == target < minWLStep \/ target > maxWLStep

\* the deadline tests of the polling loops
DeadlinePassed(t) == t > TimeoutTicks
InitDeadlinePassed(t) == t > InitTimeoutTicks

(* ------------------------------- Init ---------------------------------- *)
\* the wavelengths asked for: on and between the steps, and beyond both ends
Targets ==
  (wLOffsetValue - wLCoefValue * (StepLoMag + 1) - 1) ..
  (wLOffsetValue + wLCoefValue * (StepHi + 1) + 1)

\* no call in progress
NoCall ==
  /\ pc = "idle"
  /\ op = "none"
  /\ arg = NoArg
  /\ elapsed = 0
  /\ callWrites = <<>>
  /\ result = NoResult

\* Monochromator.__init__: any bounds, any step within them
InitAxis ==
  /\ minWLStep \in (-StepLoMag)..1
  /\ maxWLStep \in minWLStep..StepHi
  /\ wLStep \in minWLStep..maxWLStep
  /\ wLOffset = WaveLength(wLOffsetValue)
  /\ wLCoef = wLCoefValue
  /\ wLValue = WaveLength(InitWLValue)
  /\ newWLStep = 0
  /\ devPos = InitDevPos
  /\ zeroed = FALSE
  /\ cleanRun = FALSE

\* Slit.__init__ as main.py calls it (step 0), updateWaveLength() included
InitSlit ==
  /\ number \in 1..MaxSlits
  /\ offsetWL = WaveLength(slitOffsetValue)
  /\ coefWL = slitCoefValue
  /\ minStep \in (-StepLoMag)..0
  /\ maxStep \in 1..StepHi
  /\ step = InitSlitStep
  /\ value = WaveLength(slitOffsetValue + slitCoefValue * InitSlitStep)
  /\ i = 0
  /\ newStep = 0
  /\ devSlit = [k \in 1..number |-> InitDevPos]

\* a channel whose traffic is not followed
ParkedPort ==
  /\ backlog = <<>>
  /\ inbox = <<>>
  /\ asked = 0
  /\ ackOf = 0

\* the axis of a controller whose slit bank is being followed
ParkedAxis ==
  /\ minWLStep = 0
  /\ maxWLStep = StepHi
  /\ wLStep = 0
  /\ wLOffset = WaveLength(wLOffsetValue)
  /\ wLCoef = wLCoefValue
  /\ wLValue = WaveLength(InitWLValue)
  /\ newWLStep = 0
  /\ devPos = InitDevPos
  /\ zeroed = FALSE
  /\ cleanRun = FALSE

\* the slit bank of a controller whose axis is being followed
ParkedSlit ==
  /\ InitSlit
  /\ number = MaxSlits
  /\ minStep = 0
  /\ maxStep = StepHi

\* the measurement bench, unused while one axis or one slit bank is studied
ParkedBench ==
  /\ monochromators = <<>>
  /\ stage = "parked"
  /\ measure = <<>>
  /\ at = 0
  /\ measured_signal = <<>>
  /\ reference_signal = <<>>
  /\ wire = <<>>
  /\ outcome = NoResult
  /\ calls = 0

\* the floating-point unit, unused likewise
ParkedKin ==
  /\ unit = <<>>
  /\ trip = <<>>
  /\ channel = <<>>

Init == InitAxis /\ ParkedSlit /\ NoCall /\ ParkedBench /\ ParkedKin /\ ParkedPort

InitSlitBank == ParkedAxis /\ InitSlit /\ NoCall /\ ParkedBench /\ ParkedKin /\ ParkedPort

(* ------------------------------ actions -------------------------------- *)
\* findZero up to its polling loop: write ZERO,WL, sleep, start the clock
SendZero(written) ==
  /\ callWrites' = Append(written, ZeroCmd("WL"))
  /\ devPos' = DeviceExec(devPos, ZeroCmd("WL"))
  /\ elapsed' = 0
  /\ pc' = "zero"
  /\ result' = Running

\* the call ends: its locals are gone
EndCall(r) ==
  /\ result' = r
  /\ pc' = "idle"
  /\ arg' = NoArg
  /\ elapsed' = 0
  /\ newWLStep' = 0

\* a failure that records the step the call was heading for
RaiseCommitting(fault) ==
  /\ EndCall(fault)
  /\ cleanRun' = FALSE
  /\ wLStep' = newWLStep
  /\ UNCHANGED <<wLValue, zeroed>>

\* the call ends with an exception: nothing of the axis changes
Raise(fault) ==
  /\ EndCall(fault)
  /\ cleanRun' = FALSE
  /\ UNCHANGED <<wLStep, wLValue, zeroed>>

\* the polling loop goes round once more
KeepWaiting ==
  /\ elapsed' = elapsed + 1
  /\ UNCHANGED <<pc, arg, newWLStep, result, wLStep, wLValue, zeroed, cleanRun>>

InitMotorsCall ==
  /\ pc = "idle"
  /\ op' = "initMotors"
  /\ callWrites' = <<>>
  /\ elapsed' = 0
  /\ pc' = "init"
  /\ result' = Running
  /\ UNCHANGED <<port, kin, bench, config, slitConfig, slit, wLStep, wLValue, arg, newWLStep, devPos, zeroed, cleanRun>>

InitPoll(raw) ==
  /\ pc = "init"
  /\ ~InitDeadlinePassed(elapsed)
  /\ IF Strip(raw) = Handshake
     THEN SendZero(callWrites)
     ELSE /\ elapsed' = elapsed + 1
          /\ UNCHANGED <<pc, callWrites, devPos, result>>
  /\ UNCHANGED <<port, kin, bench, config, slitConfig, slit, wLStep, wLValue, op, arg, newWLStep, zeroed, cleanRun>>

InitDeadline ==
  /\ pc = "init"
  /\ InitDeadlinePassed(elapsed)
  /\ Raise(InitLocalTimeout)
  /\ UNCHANGED <<port, kin, bench, config, slitConfig, slit, op, callWrites, devPos>>

FindZeroCall ==
  /\ pc = "idle"
  /\ op' = "findZero"
  /\ SendZero(<<>>)
  /\ UNCHANGED <<port, kin, bench, config, slitConfig, slit, wLStep, wLValue, arg, newWLStep, zeroed, cleanRun>>

ZeroPoll(raw) ==
  /\ pc = "zero"
  /\ ~DeadlinePassed(elapsed)
  /\ LET r == ZeroLineResult(Strip(raw)) IN
       IF r = Running THEN KeepWaiting
       ELSE IF r = Returned
       THEN /\ wLStep' = ZeroStep
            /\ wLValue' = ZeroValue
            /\ zeroed' = TRUE
            /\ cleanRun' = TRUE
            /\ EndCall(Returned)
       ELSE Raise(r)
  /\ UNCHANGED <<port, kin, bench, config, slitConfig, slit, op, callWrites, devPos>>

ZeroDeadline ==
  /\ pc = "zero"
  /\ DeadlinePassed(elapsed)
  /\ Raise(ZeroLocalTimeout)
  /\ UNCHANGED <<port, kin, bench, config, slitConfig, slit, op, callWrites, devPos>>

MoveCall(wl) ==
  /\ pc = "idle"
  /\ op' = "moveToWaveLength"
  /\ LET target == getStepFromWL(WaveLength(wl))
         cmd == MoveCmd("WL", MoveStepCount(wLStep, target),
                        MoveDirection(wLStep, target))
     IN IF OutOfBounds(target)
        THEN /\ EndCall(RangeFault(target))
             /\ callWrites' = <<>>
             /\ UNCHANGED devPos
        ELSE /\ Abs(DeviceExec(devPos, cmd)) <= MaxDevPos
             /\ arg' = WaveLength(wl)
             /\ newWLStep' = target
             /\ callWrites' = <<cmd>>
             /\ devPos' = DeviceExec(devPos, cmd)
             /\ elapsed' = 0
             /\ pc' = "move"
             /\ result' = Running
  /\ UNCHANGED <<port, kin, bench, config, slitConfig, slit, wLStep, wLValue, zeroed, cleanRun>>

MovePoll(raw) ==
  /\ pc = "move"
  /\ ~DeadlinePassed(elapsed)
  /\ LET r == MoveLineResult(Strip(raw)) IN
       IF r = Running THEN KeepWaiting
       ELSE IF r = Returned
       THEN /\ wLStep' = newWLStep
            /\ wLValue' = updateWaveLength(newWLStep, arg)
            /\ EndCall(Returned)
            /\ UNCHANGED <<zeroed, cleanRun>>
       ELSE Raise(r)
  /\ UNCHANGED <<port, kin, bench, config, slitConfig, slit, op, callWrites, devPos>>

MoveDeadline ==
  /\ pc = "move"
  /\ DeadlinePassed(elapsed)
  /\ Raise(MoveLocalTimeout)
  /\ UNCHANGED <<port, kin, bench, config, slitConfig, slit, op, callWrites, devPos>>

Next ==
  \/ InitMotorsCall
  \/ \E raw \in RawLines : InitPoll(raw)
  \/ InitDeadline
  \/ FindZeroCall
  \/ \E raw \in RawLines : ZeroPoll(raw)
  \/ ZeroDeadline
  \/ \E wl \in Targets : MoveCall(wl)
  \/ \E raw \in RawLines : MovePoll(raw)
  \/ MoveDeadline

Spec == Init /\ [][Next]_vars

(* ------------------------------ slit bank ------------------------------ *)
\* Slit kinematics; getStepFromValue reads .value of what it is given
getValueFromStep(s) == WaveLength(offsetWL.value + coefWL * s)

HasValue(x) == x.type = "WaveLength"

getStepFromValue(x) == TruncDiv(x.value - offsetWL.value, coefWL)

\* what moveToValue hands to getStepFromValue: value.value, a bare number
MoveToValueArgument(v) == Number(v.value)

\* int(minStep + (maxStep - minStep) * (percentage / 100)), in exact arithmetic
PercentageStep(percentage) ==
  TruncDiv(100 * minStep + (maxStep - minStep) * percentage, 100)

SlitName(k) == <<"SLIT", k>>

AttributeFault == Fault("AttributeError", <<"'float' object has no attribute 'value'">>)
PercentageFault == Fault("ValueError", <<"Percentage must be between 0 and 100.">>)
SlitZeroLocalTimeout == Fault("TimeoutError", <<"Timed out waiting for ZERO,DONE">>)
SlitZeroDeviceTimeout == Fault("TimeoutError", <<"MCU reported zero-finding timeout">>)
SlitMoveLocalTimeout(k) == Fault("TimeoutError", <<"Timed out waiting for MOVE,DONE for ", SlitName(k)>>)
SlitDeviceFault(k, parts) == Fault("RuntimeError", <<"ERROR ", SlitName(k)>> \o parts[2])

\* Slit.findZero's handling of one stripped line, at element k
SlitZeroLineResult(k, line) ==
  IF line = <<>> THEN Running
  ELSE LET parts == Split(line, 2) IN
    IF parts[1] = <<"ZERO">> /\ Len(parts) < 2 THEN IndexFault
    ELSE IF parts[1] = <<"ZERO">> /\ parts[2] = <<"DONE">> THEN Returned
    ELSE IF parts[1] = <<"ZERO">> /\ parts[2] = <<"TIMEOUT">> THEN SlitZeroDeviceTimeout
    ELSE IF parts[1] = <<"ERROR">>
         THEN IF Len(parts) < 2 THEN IndexFault ELSE SlitDeviceFault(k, parts)
         ELSE Running

\* moveToValue's and moveToPercentage's handling of one stripped line
SlitMoveLineResult(k, line) ==
  IF line = <<>> THEN Running
  ELSE LET parts == Split(line, 2) IN
    IF parts[1] = <<"MOVE">> /\ Len(parts) < 2 THEN IndexFault
    ELSE IF parts[1] = <<"MOVE">> /\ parts[2] = <<"DONE">> THEN Returned
    ELSE IF parts[1] = <<"ERROR">>
         THEN IF Len(parts) < 2 THEN IndexFault ELSE SlitDeviceFault(k, parts)
         ELSE Running

\* what the code does when element k has acknowledged: "return" leaves the
\* call, "next" would go on to element k + 1
AfterElementDone(k) == "return"

\* a slit call writes one command to the port; the device executes it
SlitSend(cmd, k) ==
  /\ Abs(DeviceExec(devSlit[k], cmd)) <= MaxDevPos
  /\ callWrites' = Append(IF k = 1 THEN <<>> ELSE callWrites, cmd)
  /\ devSlit' = [devSlit EXCEPT ![k] = DeviceExec(devSlit[k], cmd)]
  /\ i' = k
  /\ elapsed' = 0
  /\ result' = Running

\* a slit call ends: its locals are gone
SlitEndCall(r) ==
  /\ result' = r
  /\ pc' = "idle"
  /\ arg' = NoArg
  /\ elapsed' = 0
  /\ i' = 0
  /\ newStep' = 0

\* a failure that sends the element back where it was before it raises
SlitRaiseRollingBack(fault) ==
  /\ SlitEndCall(fault)
  /\ LET last == callWrites[Len(callWrites)] IN
       callWrites' = Append(callWrites,
                            IF last[1] = "MOVE" THEN MoveCmd(last[2], last[3], ~last[4])
                            ELSE last)
  /\ UNCHANGED <<step, value, devSlit>>

SlitRaise(fault) ==
  /\ SlitEndCall(fault)
  /\ UNCHANGED <<step, value, callWrites, devSlit>>

SlitKeepWaiting ==
  /\ elapsed' = elapsed + 1
  /\ UNCHANGED <<pc, arg, result, slit, callWrites>>

\* the MOVE of element k of a move of the bank to target
SlitMoveCmd(k, target) ==
  MoveCmd(SlitName(k), MoveStepCount(step, target), MoveDirection(step, target))

SlitFindZeroCall ==
  /\ pc = "idle"
  /\ number >= 1
  /\ op' = "Slit.findZero"
  /\ SlitSend(ZeroCmd(SlitName(1)), 1)
  /\ pc' = "slitzero"
  /\ UNCHANGED <<port, kin, bench, config, axis, slitConfig, step, value, newStep, arg>>

SlitZeroPoll(raw) ==
  /\ pc = "slitzero"
  /\ ~DeadlinePassed(elapsed)
  /\ LET r == SlitZeroLineResult(i, Strip(raw)) IN
       IF r = Running THEN SlitKeepWaiting
       ELSE IF r = Returned
       THEN /\ step' = 0
            /\ value' = offsetWL
            /\ IF AfterElementDone(i) = "next" /\ i < number
               THEN /\ SlitSend(ZeroCmd(SlitName(i + 1)), i + 1)
                    /\ UNCHANGED <<pc, arg, newStep>>
               ELSE /\ SlitEndCall(Returned)
                    /\ UNCHANGED <<callWrites, devSlit>>
       ELSE SlitRaise(r)
  /\ UNCHANGED <<port, kin, bench, config, axis, slitConfig, op>>

SlitZeroDeadline ==
  /\ pc = "slitzero"
  /\ DeadlinePassed(elapsed)
  /\ SlitRaise(SlitZeroLocalTimeout)
  /\ UNCHANGED <<port, kin, bench, config, axis, slitConfig, op>>

\* the part moveToValue and moveToPercentage share: the bounds test, then
\* the MOVE of element 1
SlitBeginMove(a, target) ==
  IF target < minStep \/ target > maxStep
  THEN /\ SlitEndCall(RangeFault(target))
       /\ callWrites' = <<>>
       /\ UNCHANGED <<step, value, devSlit>>
  ELSE /\ number >= 1
       /\ SlitSend(SlitMoveCmd(1, target), 1)
       /\ arg' = a
       /\ newStep' = target
       /\ pc' = "slitmove"
       /\ UNCHANGED <<step, value>>

MoveToValueCall(v) ==
  /\ pc = "idle"
  /\ op' = "moveToValue"
  /\ IF ~HasValue(MoveToValueArgument(WaveLength(v)))
     THEN /\ SlitEndCall(AttributeFault)
          /\ callWrites' = <<>>
          /\ UNCHANGED <<step, value, devSlit>>
     ELSE SlitBeginMove(WaveLength(v), getStepFromValue(MoveToValueArgument(WaveLength(v))))
  /\ UNCHANGED <<port, kin, bench, config, axis, slitConfig>>

MoveToPercentageCall(percentage) ==
  /\ pc = "idle"
  /\ op' = "moveToPercentage"
  /\ IF percentage < 0 \/ percentage > 100
     THEN /\ SlitEndCall(PercentageFault)
          /\ callWrites' = <<>>
          /\ UNCHANGED <<step, value, devSlit>>
     ELSE SlitBeginMove(Number(percentage), PercentageStep(percentage))
  /\ UNCHANGED <<port, kin, bench, config, axis, slitConfig>>

SlitMovePoll(raw) ==
  /\ pc = "slitmove"
  /\ ~DeadlinePassed(elapsed)
  /\ LET r == SlitMoveLineResult(i, Strip(raw)) IN
       IF r = Running THEN SlitKeepWaiting
       ELSE IF r = Returned
       THEN /\ step' = newStep
            /\ value' = getValueFromStep(newStep)
            /\ IF AfterElementDone(i) = "next" /\ i < number
               THEN /\ SlitSend(SlitMoveCmd(i + 1, newStep), i + 1)
                    /\ UNCHANGED <<pc, arg, newStep>>
               ELSE /\ SlitEndCall(Returned)
                    /\ UNCHANGED <<callWrites, devSlit>>
       ELSE SlitRaise(r)
  /\ UNCHANGED <<port, kin, bench, config, axis, slitConfig, op>>

SlitMoveDeadline ==
  /\ pc = "slitmove"
  /\ DeadlinePassed(elapsed)
  /\ SlitRaise(SlitMoveLocalTimeout(i))
  /\ UNCHANGED <<port, kin, bench, config, axis, slitConfig, op>>

\* the widths asked for: on and between the steps, and beyond both ends
Widths ==
  (slitOffsetValue - slitCoefValue * (StepLoMag + 1) - 1) ..
  (slitOffsetValue + slitCoefValue * (StepHi + 1) + 1)

Percentages == {-1, 0, 50, 100, 101}

NextSlit ==
  \/ SlitFindZeroCall
  \/ \E raw \in RawLines : SlitZeroPoll(raw)
  \/ SlitZeroDeadline
  \/ \E v \in Widths : MoveToValueCall(v)
  \/ \E percentage \in Percentages : MoveToPercentageCall(percentage)
  \/ \E raw \in RawLines : SlitMovePoll(raw)
  \/ SlitMoveDeadline

SpecSlit == InitSlitBank /\ [][NextSlit]_vars

(* ======================= claims about the axis ========================= *)
\* the step a target wavelength resolves to
TargetStep(wl) == getStepFromWL(WaveLength(wl))

\* the comma-separated fields of a received line, all of them
Fields(raw) == Split(Strip(raw), Len(raw))

\* the protocol's terminal responses (section 4.2): ZERO,DONE  ZERO,TIMEOUT
\* ERROR,<reason> for a ZERO, MOVE,DONE  ERROR,<reason> for a MOVE, and the
\* handshake line for initMotors
IsTerminal(loop, raw) ==
  LET f == Fields(raw) IN
    CASE loop = "init" -> Strip(raw) = Handshake
      [] loop = "zero" -> /\ Len(f) >= 2
                          /\ \/ f[1] = <<"ZERO">> /\ f[2] \in {<<"DONE">>, <<"TIMEOUT">>}
                             \/ f[1] = <<"ERROR">>
      [] loop = "move" -> /\ Len(f) >= 2
                          /\ \/ f[1] = <<"MOVE">> /\ f[2] = <<"DONE">>
                             \/ f[1] = <<"ERROR">>
      [] OTHER -> FALSE

IsBlank(raw) == Strip(raw) = <<>>

\* the program reads `raw` in the polling loop it is in
Reads(raw) ==
  CASE pc = "init" -> InitPoll(raw)
    [] pc = "zero" -> ZeroPoll(raw)
    [] pc = "move" -> MovePoll(raw)
    [] OTHER -> FALSE

AxisUnchanged == wLStep' = wLStep /\ wLValue' = wLValue

LocalTimeouts == {ZeroLocalTimeout, MoveLocalTimeout, InitLocalTimeout}

\* C1: a moveToWaveLength whose computed step is below minWLStep or above
\* maxWLStep fails with a range error (ValueError), writes nothing to the
\* serial channel, and leaves the step and the cached wavelength unchanged.
C1_RangeErrorWritesNothing ==
  [][\A wl \in Targets :
       (MoveCall(wl) /\ (TargetStep(wl) < minWLStep \/ TargetStep(wl) > maxWLStep))
         => /\ result'.kind = "ValueError"
            /\ pc' = "idle"
            /\ callWrites' = <<>>
            /\ devPos' = devPos
            /\ AxisUnchanged]_vars

C1_Witness ==
  /\ pc = "idle" /\ op = "moveToWaveLength" /\ result.kind = "ValueError"
  /\ zeroed /\ callWrites = <<>>

\* C2: in a zero or move transaction a received line that is neither blank
\* nor a terminal response of the command is ignored: the transaction does
\* not end because of it, and the deadline keeps running.
C2_NonTerminalLinesIgnored ==
  [][\A raw \in RawLines :
       (pc \in {"zero", "move"} /\ Reads(raw) /\ ~IsBlank(raw) /\ ~IsTerminal(pc, raw))
         => /\ pc' = pc
            /\ result' = Running
            /\ elapsed' = elapsed + 1
            /\ AxisUnchanged]_vars

\* C3: in a zero or move transaction a line ERROR,<reason> ends the
\* transaction with a device-reported fault (RuntimeError) that carries the
\* reason; it is no success, and no further line is read.
C3_ErrorLineAborts ==
  [][\A raw \in RawLines :
       (pc \in {"zero", "move"} /\ Reads(raw)
          /\ Len(Fields(raw)) >= 2 /\ Fields(raw)[1] = <<"ERROR">>)
         => /\ pc' = "idle"
            /\ result'.kind = "RuntimeError"
            /\ Tail(result'.msg) = Fields(raw)[2]
            /\ AxisUnchanged
            /\ zeroed' = zeroed]_vars

C3_Witness ==
  /\ pc = "idle" /\ op = "moveToWaveLength"
  /\ result.kind = "RuntimeError" /\ Tail(result.msg) = <<"STUCK">>

\* C4: a zero, move or handshake transaction that ends without having read
\* a terminal response ends with the local-timeout fault, after its deadline.
C4_EndsOnlyByLocalTimeout ==
  [][(pc \in {"init", "zero", "move"} /\ pc' = "idle"
        /\ ~(\E raw \in RawLines : IsTerminal(pc, raw) /\ Reads(raw)))
       => /\ result' \in LocalTimeouts
          /\ elapsed > (IF pc = "init" THEN InitTimeoutTicks ELSE TimeoutTicks)]_vars

\* C5: a ZERO,TIMEOUT line ends a zero transaction with a fault whose kind
\* differs from the kind of the fault raised when the local deadline expires.
C5_DeviceTimeoutDistinctKind ==
  [][\A raw \in RawLines :
       (pc = "zero" /\ Reads(raw) /\ Fields(raw) = <<<<"ZERO">>, <<"TIMEOUT">>>>)
         => /\ pc' = "idle"
            /\ result'.kind # ZeroLocalTimeout.kind]_vars

\* C6: a successful zero leaves step 0, a successful move leaves the
\* computed target step, and once a zero has succeeded the cached wavelength
\* is wavelengthFromStep(step) in every state.
C6_CachedWavelengthFollowsStep ==
  /\ [](zeroed => wLValue = WaveLength(wLOffset.value + wLCoef * wLStep))
  /\ [][(pc = "zero" /\ result' = Returned)
          => (wLStep' = 0 /\ wLValue' = WaveLength(wLOffset.value))]_vars
  /\ [][(pc = "move" /\ result' = Returned)
          => (wLStep' = TargetStep(arg.value)
              /\ wLValue' = WaveLength(wLOffset.value + wLCoef * TargetStep(arg.value)))]_vars

\* a successful move to a wavelength between two steps
C6_Witness ==
  /\ pc = "idle" /\ op = "moveToWaveLength" /\ result = Returned
  /\ zeroed /\ wLStep = 1

\* C7: minWLStep <= step <= maxWLStep in every reachable state.
C7_StepWithinBounds == minWLStep <= wLStep /\ wLStep <= maxWLStep

\* C8: between calls, when every transaction since the last successful zero
\* has succeeded, the step is the position of a device that has executed
\* every command once: the sum of the signed step counts of the MOVEs asked.
C8_StepTracksDevice ==
  (pc = "idle" /\ zeroed /\ cleanRun) => wLStep = devPos

C8_Witness ==
  /\ pc = "idle" /\ zeroed /\ cleanRun
  /\ op = "moveToWaveLength" /\ result = Returned /\ wLStep = -1

\* the loops of the axis end: with the program's steps taken whenever they
\* can be, no zero, move or handshake transaction waits forever
FairSpec == Spec /\ WF_vars(Next)

TransactionsTerminate == (pc # "idle") ~> (pc = "idle")

\* C28: a moveToWaveLength whose target step is within the bounds writes
\* one MOVE,WL with step count |target - step| and direction target > step,
\* taken from the step held when it is called, also when the target is the
\* step held (count 0); nothing more is written until the call has ended,
\* however it ends
C28_OneMovePerCall ==
  /\ [][\A wl \in Targets :
          (MoveCall(wl) /\ minWLStep <= TargetStep(wl) /\ TargetStep(wl) <= maxWLStep)
            => /\ callWrites' = << <<"MOVE", "WL", Abs(TargetStep(wl) - wLStep),
                                      TargetStep(wl) > wLStep>> >>
               /\ pc' = "move"
               /\ result' = Running]_vars
  /\ [][pc = "move" => callWrites' = callWrites]_vars

\* a move to the step the axis is at, asked and acknowledged
C28_Witness ==
  /\ pc = "idle" /\ op = "moveToWaveLength" /\ result = Returned
  /\ callWrites = << <<"MOVE", "WL", 0, FALSE>> >>

\* C29: the linear conversion gives the integer part of (w - offset)/coeff
\* nearest zero, whatever the sign of the quotient, so a target whose quotient
\* lies strictly between -1 and 0 becomes step 0 and an axis whose lower bound
\* is 0 accepts it
C29_TruncatesTowardZero ==
  [][\A wl \in Targets :
        MoveCall(wl) =>
          LET d == wl - wLOffset.value
              t == TargetStep(wl)
          IN /\ Abs(t) * Abs(wLCoef) <= Abs(d)
             /\ Abs(d) < (Abs(t) + 1) * Abs(wLCoef)
             /\ t # 0 => ((t > 0) = ((d > 0) = (wLCoef > 0)))
             /\ (d < 0 /\ -wLCoef < d /\ minWLStep = 0)
                  => /\ newWLStep' = 0
                     /\ pc' = "move"
                     /\ result' = Running]_vars

\* a move to the wavelength just below the offset, accepted as a move to step 0
C29_Witness ==
  /\ pc = "move" /\ op = "moveToWaveLength" /\ result = Running
  /\ arg = WaveLength(wLOffsetValue - 1)
  /\ minWLStep = 0
  /\ newWLStep = 0
  /\ callWrites = <<MoveCmd("WL", wLStep, FALSE)>>

(* ===================== claims about the slit bank ====================== *)
\* the step a width resolves to in the bank's Linear model
WidthStep(v) == TruncDiv(v - offsetWL.value, coefWL)

\* the MOVE commands of a move of an N-element bank from step `from` to `to`
BankMoves(from, to) ==
  [k \in 1..number |-> <<"MOVE", <<"SLIT", k>>, Abs(to - from), to > from>>]

\* C9: moveToValue(width) with an in-bounds target on a bank of N elements
\* sends exactly N MOVE commands, to SLIT1 .. SLITN in that order, with one
\* step count and one direction, each after the MOVE,DONE of the one before.
C9_MoveToValueCommandsAllInOrder ==
  /\ [][\A v \in Widths :
          (MoveToValueCall(v) /\ minStep <= WidthStep(v) /\ WidthStep(v) <= maxStep)
            => /\ pc' = "slitmove"
               /\ callWrites' = SubSeq(BankMoves(step, WidthStep(v)), 1, 1)]_vars
  /\ [][(pc = "slitmove" /\ op = "moveToValue" /\ Len(callWrites') > Len(callWrites))
          => /\ \E raw \in RawLines :
                  SlitMovePoll(raw) /\ Fields(raw) = <<<<"MOVE">>, <<"DONE">>>>
             /\ callWrites' = SubSeq(BankMoves(step, newStep), 1, Len(callWrites) + 1)]_vars
  /\ [][(pc = "slitmove" /\ op = "moveToValue" /\ result' = Returned)
          => callWrites' = BankMoves(step, newStep)]_vars

\* C10: after a slit-bank call that returned successfully on a bank of
\* N >= 2 elements, every element of the device is at the bank's step.
C10_ElementsAtSharedStep ==
  (pc = "idle" /\ number >= 2 /\ result = Returned
     /\ op \in {"Slit.findZero", "moveToValue", "moveToPercentage"})
    => \A k \in 1..number : devSlit[k] = step

\* C24: MonochromatorB.setResolution(width), which is slits.moveToValue of
\* the width, with the width's step within the slit bounds does not end
\* before a command is written: it writes a MOVE to a slit element and waits
\* for its acknowledgement
C24_SetResolutionMovesSlits ==
  [][\A v \in Widths :
       (MoveToValueCall(v) /\ minStep <= WidthStep(v) /\ WidthStep(v) <= maxStep)
         => /\ result' = Running
            /\ newStep' = WidthStep(v)
            /\ Len(callWrites') = 1
            /\ callWrites'[1][1] = "MOVE"]_vars

\* a slit move has ended with an ERROR line or with the local timeout
SlitMoveFailed ==
  /\ pc = "idle"
  /\ op \in {"moveToValue", "moveToPercentage"}
  /\ result.kind \in {"RuntimeError", "TimeoutError"}

\* C27: a slit move that fails at an element (ERROR line or local timeout)
\* ends there with the error: the step that ends it writes nothing, and the
\* commands of the call are MOVEs to SLIT1, SLIT2, ... up to the failing
\* element, one each, all with the same step count and direction, so that
\* no later element is commanded and no element is asked back
C27_SlitFailureAbortsNoRollback ==
  /\ [][(pc = "slitmove" /\ pc' = "idle" /\ result' # Returned) =>
          /\ result'.kind \in {"RuntimeError", "TimeoutError", "IndexError"}
          /\ callWrites' = callWrites
          /\ Len(callWrites) = i
          /\ devSlit' = devSlit
          /\ step' = step /\ value' = value]_vars
  /\ [](SlitMoveFailed =>
          /\ Len(callWrites) \in 1..number
          /\ \A k \in 1..Len(callWrites) :
               /\ callWrites[k][1] = "MOVE"
               /\ callWrites[k][2] = SlitName(k)
               /\ callWrites[k][3] = callWrites[1][3]
               /\ callWrites[k][4] = callWrites[1][4])

C27_Witness ==
  /\ SlitMoveFailed
  /\ op = "moveToPercentage"
  /\ number = 2
  /\ result.kind = "RuntimeError"
  /\ callWrites = <<MoveCmd(SlitName(1), 1, TRUE)>>

(* ------------------ a controller with a slit bank ---------------------- *)
\* MonochromatorB as main.py constructs it: an axis, and a slit bank on the
\* same serial connection
InitControllerB == InitAxis /\ InitSlit /\ NoCall /\ ParkedBench /\ ParkedKin /\ ParkedPort

\* MonochromatorB.initMotors after self.findZero() has returned: its last
\* statement, self.slits.findZero()
InitMotorsSlits ==
  /\ op = "initMotors"
  /\ result = Returned
  /\ SlitFindZeroCall

\* MonochromatorB.initMotors, from the handshake to the end of slits.findZero
NextInitB ==
  \/ InitMotorsCall
  \/ \E raw \in RawLines : InitPoll(raw)
  \/ InitDeadline
  \/ \E raw \in RawLines : ZeroPoll(raw)
  \/ ZeroDeadline
  \/ InitMotorsSlits
  \/ \E raw \in RawLines : SlitZeroPoll(raw)
  \/ SlitZeroDeadline

SpecInitB == InitControllerB /\ [][NextInitB]_vars

\* C25: initMotors writes nothing while it waits for the handshake and
\* nothing if the handshake deadline passes; when initMotors of a controller
\* with a slit bank has returned, a ZERO was written for every element
\* SLIT1..SLITN, every element stands at 0, and the axis step and the slit
\* step are 0
C25_InitializeZeroesAll ==
  /\ pc = "init" => callWrites = <<>>
  /\ (pc = "idle" /\ op = "initMotors" /\ result = InitLocalTimeout) => callWrites = <<>>
  /\ (pc = "idle" /\ op = "Slit.findZero" /\ result = Returned) =>
       /\ callWrites = [k \in 1..number |-> ZeroCmd(SlitName(k))]
       /\ \A k \in 1..number : devSlit[k] = 0
       /\ wLStep = 0
       /\ step = 0

(* ======================================================================= *)
(* The measurement bench: main's two controllers and one measurement.      *)
(* A controller call is one step here; how it can end is what the axis      *)
(* and the slit bank above can end with.                                   *)
(* ======================================================================= *)
WLBase == 10          \* the lowest wavelength a measurement is configured with
MaxSpan == 3          \* the widest sweep, wLMax - wLMin
MaxWLStepSize == 2    \* the largest sweep step
SyncOffset == 2       \* a synchronous scan's emission offset
IntegrationTimeValue == 1000

ExKey == "excitation monochromator"
EmKey == "emission monochromator"
MonoKeys == <<ExKey, EmKey>>

\* a controller object: its key in main's dict, its class and its role flags
Monochromator(key, type, em, ex) == [key |-> key, type |-> type, em |-> em, ex |-> ex]

createConfiguredMonochromators(types) ==
  [key \in {ExKey, EmKey} |-> Monochromator(key, types[key], key = EmKey, key = ExKey)]

\* WLRange's constructor: the only test is wLMin >= wLMax
WLRangeRaises(lo, hi, by) == lo.value >= hi.value
WLRange(lo, hi, by) == [type |-> "WLRange", wLMin |-> lo, wLMax |-> hi, wLStep |-> by]

\* Measure's constructor: the role tests, in their order

\* a constructor that does not test the emission argument
MeasureRoleCheckExOnly(ex_Monochromator, em_Monochromator) ==
  IF ex_Monochromator.ex = FALSE
    THEN Fault("ValueError", <<"ex_Monochromator must be an excitation monochromator.">>)
    ELSE Returned

MeasureRoleCheck(ex_Monochromator, em_Monochromator) ==
  IF ex_Monochromator.ex = FALSE
    THEN Fault("ValueError", <<"ex_Monochromator must be an excitation monochromator.">>)
  ELSE IF em_Monochromator.em = FALSE
    THEN Fault("ValueError", <<"em_Monochromator must be an emission monochromator.">>)
  ELSE Returned

Measure(class, em_range, ex_range, ex_Monochromator, em_Monochromator) ==
  [class |-> class, em_range |-> em_range, ex_range |-> ex_range,
   integrationTime |-> IntegrationTimeValue,
   ex_monochromator |-> ex_Monochromator, em_monochromator |-> em_Monochromator]

\* numpy's arange(start, stop, by): start + k*by for k < ceil((stop-start)/by)
arange(start, stop, by) ==
  LET ceil == IF by > 0 THEN -((start - stop) \div by) ELSE -((stop - start) \div (-by))
  IN [k \in 1..(IF ceil > 0 THEN ceil ELSE 0) |-> start + (k - 1) * by]
\* a sweep that also visits the stop value wLMax + wLStep
SweepValuesThroughStop(r) ==
  arange(r.wLMin.value, r.wLMax.value + 2 * r.wLStep.value, r.wLStep.value)

\* a sweep that stops before wLMax, as range(wLMin, wLMax, wLStep) would
SweepValuesBeforeMax(r) == arange(r.wLMin.value, r.wLMax.value, r.wLStep.value)

\* the values a sweep's for statement iterates over
SweepValues(r) ==
  arange(r.wLMin.value, r.wLMax.value + r.wLStep.value, r.wLStep.value)

\* measureSignal() and measureReference()
measureSignal(m) == (32 * 1000) \div m.integrationTime
measureReference(m) == 32

(* the statements of measure() *)
MoveStmt(who, wl) == [do |-> "moveToWaveLength", who |-> who, wl |-> wl]
CallStmt(do, who) == [do |-> do, who |-> who]
MeasuredStmt == [do |-> "append_signal", to |-> "measured_signal"]
ReferenceStmt == [do |-> "append_signal", to |-> "reference_signal"]
\* one sample: the measured value, then the reference value
Sample == <<MeasuredStmt, ReferenceStmt>>

OpenBoth == <<CallStmt("openShutter", "ex"), CallStmt("openShutter", "em")>>
CloseBoth == <<CallStmt("closeShutter", "ex"), CallStmt("closeShutter", "em")>>
ResBoth == <<CallStmt("setResolution", "ex"), CallStmt("setResolution", "em")>>

\* a single-point measurement that opens the shutters and sets the
\* resolution before it moves
uniqueWLMeasureShuttersFirst(m) ==
  OpenBoth \o ResBoth \o <<MoveStmt("ex", m.ex_range), MoveStmt("em", m.em_range)>>
    \o Sample \o CloseBoth

uniqueWLMeasure(m) ==
  <<MoveStmt("ex", m.ex_range), MoveStmt("em", m.em_range)>> \o ResBoth \o OpenBoth
    \o Sample \o CloseBoth

\* a synchronous step that moves the emission axis first
synchroScanBodyEmFirst(m, v) ==
  <<MoveStmt("em", WaveLength(v + m.em_range.value)), MoveStmt("ex", WaveLength(v))>>
    \o Sample

synchroScanBody(m, v) ==
  <<MoveStmt("ex", WaveLength(v)), MoveStmt("em", WaveLength(v + m.em_range.value))>>
    \o Sample
\* a sweep step that appends the measured value before it moves
ExScanBodyMeasuredFirst(v) == <<MeasuredStmt, MoveStmt("ex", WaveLength(v)), ReferenceStmt>>

ExScanBody(v) == <<MoveStmt("ex", WaveLength(v))>> \o Sample
\* a sweep step that opens the shutters for its sample and closes them again
EmScanBodyShuttered(v) ==
  <<MoveStmt("em", WaveLength(v))>> \o OpenBoth \o Sample \o CloseBoth

EmScanBody(v) == <<MoveStmt("em", WaveLength(v))>> \o Sample

RECURSIVE Unrolled(_, _, _)
\* the loop body of m's class, once per value of the sweep, in order
Unrolled(m, values, k) ==
  IF k > Len(values) THEN <<>>
  ELSE (CASE m.class = "synchroScanMeasure" -> synchroScanBody(m, values[k])
          [] m.class = "ExScanMeasure" -> ExScanBody(values[k])
          [] m.class = "EmScanMeasure" -> EmScanBody(values[k]))
       \o Unrolled(m, values, k + 1)

\* np.arange is evaluated first; with a zero step it raises and no body runs
ForLoop(m, r) ==
  <<[do |-> "arange", range |-> r]>>
    \o (IF r.wLStep.value = 0 THEN <<>> ELSE Unrolled(m, SweepValues(r), 1))

synchroScanMeasure(m) ==
  OpenBoth \o ResBoth \o ForLoop(m, m.ex_range) \o CloseBoth

ExScanMeasure(m) ==
  <<MoveStmt("em", m.em_range)>> \o OpenBoth \o ResBoth
    \o ForLoop(m, m.ex_range) \o CloseBoth

EmScanMeasure(m) ==
  <<MoveStmt("ex", m.ex_range)>> \o OpenBoth \o ResBoth
    \o ForLoop(m, m.em_range) \o CloseBoth

\* the wavelengths saveResults writes beside sample i (from 0)
saveResultsRow(m, n) ==
  CASE m.class = "uniqueWLMeasure" -> <<m.ex_range.value, m.em_range.value>>
    [] m.class = "synchroScanMeasure" ->
         <<m.ex_range.wLMin.value + n * m.ex_range.wLStep.value,
           m.ex_range.wLMin.value + n * m.ex_range.wLStep.value + m.em_range.value>>
    [] m.class = "ExScanMeasure" ->
         <<m.ex_range.wLMin.value + n * m.ex_range.wLStep.value, m.em_range.value>>
    [] m.class = "EmScanMeasure" ->
         <<m.ex_range.value, m.em_range.wLMin.value + n * m.em_range.wLStep.value>>

Classes == {"uniqueWLMeasure", "synchroScanMeasure", "ExScanMeasure", "EmScanMeasure"}

\* measure(), statement by statement
Statements(m) ==
  CASE m.class = "uniqueWLMeasure" -> uniqueWLMeasure(m)
    [] m.class = "synchroScanMeasure" -> synchroScanMeasure(m)
    [] m.class = "ExScanMeasure" -> ExScanMeasure(m)
    [] m.class = "EmScanMeasure" -> EmScanMeasure(m)

\* the controller a statement addresses
Addressed(m, stmt) == IF stmt.who = "ex" THEN m.ex_monochromator ELSE m.em_monochromator

(* what goes over a controller's channel *)
Wrote(key, cmd) == [key |-> key, io |-> "out", cmd |-> cmd]
Got(key, line) == [key |-> key, io |-> "in", cmd |-> line]
\* the MOVE of a moveToWaveLength(wl), by the wavelength it is asked for

\* how a controller call can end, once its command is written
ZeroEndings == ({ZeroLineResult(Strip(raw)) : raw \in RawLines} \ {Running}) \cup {ZeroLocalTimeout}
MoveEndings == ({MoveLineResult(Strip(raw)) : raw \in RawLines} \ {Running}) \cup {MoveLocalTimeout}
SlitZeroEndings ==
  ({SlitZeroLineResult(1, Strip(raw)) : raw \in RawLines} \ {Running}) \cup {SlitZeroLocalTimeout}
\* how moveToWaveLength can end before it writes: the bounds test, and B's asin
BenchRangeFault == Fault("ValueError", <<"New wavelength step out of bounds">>)
DomainFault == Fault("ValueError", <<"math domain error">>)
EarlyMoveFaults(mono) ==
  IF mono.type = "B" THEN {BenchRangeFault, DomainFault} ELSE {BenchRangeFault}

InitBench ==
  /\ monochromators \in
       {createConfiguredMonochromators(t) : t \in [{ExKey, EmKey} -> {"A", "B"}]}
  /\ stage = "created"
  /\ measure = <<>>
  /\ at = 0
  /\ measured_signal = <<>>
  /\ reference_signal = <<>>
  /\ wire = <<>>
  /\ outcome = NoResult
  /\ calls = 0

\* interactive_run's question "Initialize motors? (yes/no)"
AnswerInit(init_choice) ==
  /\ stage = "created"
  /\ IF init_choice = "yes"
       THEN stage' = "init" /\ at' = 1
       ELSE stage' = "ready" /\ at' = at
  /\ UNCHANGED <<monochromators, measure, measured_signal, reference_signal, wire, outcome, calls>>
  /\ UNCHANGED <<port, kin, config, axis, slitConfig, slit, call>>

\* mono.initMotors() for the controller main's loop is at
BenchInitMotors(ending, slitEnding) ==
  /\ stage = "init"
  /\ LET mono == monochromators[MonoKeys[at]]
         heard == wire \o <<Got(mono.key, Handshake), Wrote(mono.key, ZeroCmd("WL"))>>
         zeroedWire == Append(heard, Got(mono.key, <<"ZERO", ",", "DONE">>))
         slitWire == Append(zeroedWire, Wrote(mono.key, ZeroCmd(SlitName(1))))
         ended == IF ending # Returned \/ mono.type = "A" THEN ending ELSE slitEnding
     IN /\ wire' = IF ending = InitLocalTimeout THEN wire
                   ELSE IF ending # Returned THEN heard
                   ELSE IF mono.type = "A" THEN zeroedWire
                   ELSE slitWire
        /\ IF ended = Returned
             THEN /\ outcome' = outcome
                  /\ IF at = Len(MonoKeys) THEN stage' = "ready" /\ at' = 0
                                           ELSE stage' = stage /\ at' = at + 1
             ELSE outcome' = ended /\ stage' = "crashed" /\ at' = at
  /\ UNCHANGED <<monochromators, measure, measured_signal, reference_signal, calls>>
  /\ UNCHANGED <<port, kin, config, axis, slitConfig, slit, call>>

\* createMesurements for one scan of the file, with the constructors it calls
CreateMeasurement(class, start, end, by, fixed, ex_Monochromator, em_Monochromator) ==
  /\ stage = "ready"
  /\ LET r == WLRange(WaveLength(start), WaveLength(end), WaveLength(by))
         swept == class # "uniqueWLMeasure"
         em_range == IF class = "EmScanMeasure" THEN r ELSE WaveLength(fixed)
         ex_range == IF class \in {"synchroScanMeasure", "ExScanMeasure"}
                       THEN r ELSE WaveLength(start)
         raised == IF swept /\ WLRangeRaises(r.wLMin, r.wLMax, r.wLStep)
                     THEN Fault("ValueError", <<"Minimum wavelength must be less than maximum wavelength.">>)
                     ELSE MeasureRoleCheck(ex_Monochromator, em_Monochromator)
     IN IF raised = Returned
          THEN /\ measure' = Measure(class, em_range, ex_range,
                                     ex_Monochromator, em_Monochromator)
               /\ stage' = "configured"
               /\ outcome' = outcome
          ELSE /\ measure' = measure
               /\ stage' = "rejected"
               /\ outcome' = raised
  /\ measured_signal' = <<>>
  /\ reference_signal' = <<>>
  /\ UNCHANGED <<monochromators, at, wire, calls>>
  /\ UNCHANGED <<port, kin, config, axis, slitConfig, slit, call>>

\* main's measure.measure()
MeasureCall ==
  /\ stage = "configured"
  /\ stage' = "measuring"
  /\ at' = 1
  /\ outcome' = Running
  /\ calls' = calls + 1
  /\ UNCHANGED <<monochromators, measure, measured_signal, reference_signal, wire>>
  /\ UNCHANGED <<port, kin, config, axis, slitConfig, slit, call>>

\* the statement measure() is at
AtStatement(do) ==
  /\ stage = "measuring"
  /\ at <= Len(Statements(measure))
  /\ Statements(measure)[at].do \in do
Statement == Statements(measure)[at]

\* a measure() that notes a statement's failure and goes on to the next one
ProceedPastFailure(ended) ==
  IF ended = Returned
    THEN at' = at + 1 /\ UNCHANGED <<stage, outcome>>
    ELSE at' = at + 1 /\ stage' = stage /\ outcome' = ended

\* a statement returns, or raises out of measure() and out of main
Proceed(ended) ==
  IF ended = Returned
    THEN at' = at + 1 /\ UNCHANGED <<stage, outcome>>
    ELSE at' = at /\ stage' = "failed" /\ outcome' = ended

ExecMove(ending) ==
  /\ AtStatement({"moveToWaveLength"})
  /\ LET mono == Addressed(measure, Statement)
         sent == Append(wire, Wrote(mono.key, <<"MOVE", "WL", Statement.wl.value>>))
     IN /\ ending \in EarlyMoveFaults(mono) \cup MoveEndings
        /\ wire' = IF ending \in EarlyMoveFaults(mono) THEN wire
                   ELSE IF ending = Returned
                          THEN Append(sent, Got(mono.key, <<"MOVE", ",", "DONE">>))
                          ELSE sent
  /\ Proceed(ending)
  /\ UNCHANGED <<monochromators, measure, measured_signal, reference_signal, calls>>
  /\ UNCHANGED <<port, kin, config, axis, slitConfig, slit, call>>

ExecShutter ==
  /\ AtStatement({"openShutter", "closeShutter"})
  /\ wire' = Append(wire, Wrote(Addressed(measure, Statement).key,
                      <<"SHUTTER", " ", IF Statement.do = "openShutter" THEN "OPEN" ELSE "CLOSE">>))
  /\ Proceed(Returned)
  /\ UNCHANGED <<monochromators, measure, measured_signal, reference_signal, calls>>
  /\ UNCHANGED <<port, kin, config, axis, slitConfig, slit, call>>

\* A's setResolution prints; B's calls slits.moveToValue, which raises at once
ExecSetResolution ==
  /\ AtStatement({"setResolution"})
  /\ Proceed(IF Addressed(measure, Statement).type = "B" THEN AttributeFault ELSE Returned)
  /\ UNCHANGED <<monochromators, measure, measured_signal, reference_signal, wire, calls>>
  /\ UNCHANGED <<port, kin, config, axis, slitConfig, slit, call>>

\* the for statement evaluates arange once
ExecArange(fault) ==
  /\ AtStatement({"arange"})
  /\ Proceed(IF Statement.range.wLStep.value = 0 THEN fault ELSE Returned)
  /\ UNCHANGED <<monochromators, measure, measured_signal, reference_signal, wire, calls>>
  /\ UNCHANGED <<port, kin, config, axis, slitConfig, slit, call>>

\* a signal that keeps only the value it is given
append_signal_replacing(signal, v) == <<v>>

\* Signal.append_signal
append_signal(signal, v) == Append(signal, v)

\* one of the two append_signal statements of a sample
ExecAppend ==
  /\ AtStatement({"append_signal"})
  /\ IF Statement.to = "measured_signal"
       THEN /\ measured_signal' = append_signal(measured_signal, measureSignal(measure))
            /\ reference_signal' = reference_signal
       ELSE /\ reference_signal' = append_signal(reference_signal, measureReference(measure))
            /\ measured_signal' = measured_signal
  /\ Proceed(Returned)
  /\ UNCHANGED <<monochromators, measure, wire, calls>>
  /\ UNCHANGED <<port, kin, config, axis, slitConfig, slit, call>>

MeasureReturn ==
  /\ stage = "measuring"
  /\ at = Len(Statements(measure)) + 1
  /\ stage' = "done"
  /\ outcome' = Returned
  /\ UNCHANGED <<monochromators, measure, at, measured_signal, reference_signal, wire, calls>>
  /\ UNCHANGED <<port, kin, config, axis, slitConfig, slit, call>>

\* the wavelengths and step sizes typed at the prompts
Starts == {WLBase}
Ends == WLBase..(WLBase + MaxSpan)
StepSizes == (-1)..MaxWLStepSize
Fixeds == {0, SyncOffset}

NextBench ==
  \/ \E init_choice \in {"yes", "no"} : AnswerInit(init_choice)
  \/ \E ending \in {InitLocalTimeout} \cup ZeroEndings, slitEnding \in SlitZeroEndings :
       BenchInitMotors(ending, slitEnding)
  \/ \E class \in Classes, start \in Starts, end \in Ends, by \in StepSizes, fixed \in Fixeds,
        a \in {monochromators[k] : k \in DOMAIN monochromators},
        b \in {monochromators[k] : k \in DOMAIN monochromators} :
       CreateMeasurement(class, start, end, by, fixed, a, b)
  \/ MeasureCall
  \/ \E ending \in {BenchRangeFault, DomainFault} \cup MoveEndings : ExecMove(ending)
  \/ ExecShutter
  \/ ExecSetResolution
  \/ \E fault \in { Fault("ZeroDivisionError", <<"division by zero">>),
                     Fault("ValueError", <<"Maximum allowed size exceeded">>) } :
       ExecArange(fault)
  \/ ExecAppend
  \/ MeasureReturn

InitBenchRun == ParkedAxis /\ ParkedSlit /\ NoCall /\ ParkedKin /\ InitBench /\ ParkedPort

SpecBench == InitBenchRun /\ [][NextBench]_vars

(* ------------------------- claims about scans -------------------------- *)
RECURSIVE MovedTo(_, _)
\* the wavelengths of the MOVE commands written to controller `key`, in order
MovedTo(key, w) ==
  IF w = <<>> THEN <<>>
  ELSE LET e == Head(w) IN
    (IF e.key = key /\ e.io = "out" /\ e.cmd[1] = "MOVE" THEN <<e.cmd[3]>> ELSE <<>>)
      \o MovedTo(key, Tail(w))

Constructed == stage \in {"configured", "measuring", "done", "failed"}
IsSweep == Constructed /\ measure.class # "uniqueWLMeasure"
SweptRange == IF measure.class = "EmScanMeasure" THEN measure.em_range ELSE measure.ex_range
SweptKey == IF measure.class = "EmScanMeasure" THEN EmKey ELSE ExKey
FixedKey == IF measure.class = "EmScanMeasure" THEN ExKey ELSE EmKey
\* the swept targets commanded so far
SweptTargets == MovedTo(SweptKey, wire)
RMin == SweptRange.wLMin.value
RMax == SweptRange.wLMax.value
RStep == SweptRange.wLStep.value
ExactSpan == RStep > 0 /\ (RMax - RMin) % RStep = 0

Before(v, stop, by) == IF by > 0 THEN v < stop ELSE v > stop

IsMoveWrite(e, key) == e.io = "out" /\ e.key = key /\ e.cmd[1] = "MOVE"
IsMoveDone(e, key) == e.io = "in" /\ e.key = key /\ e.cmd = <<"MOVE", ",", "DONE">>
ExTargets == MovedTo(ExKey, wire)
EmTargets == MovedTo(EmKey, wire)
MovesDone(key) == Cardinality({p \in 1..Len(wire) : IsMoveDone(wire[p], key)})

\* C13: in a synchronous scan with offset d every emission MOVE is for the
\* excitation target of its step plus d and is written right after that
\* step's excitation move has been acknowledged; a sample is appended only
\* once both moves of its step are acknowledged; sample k is saved beside
\* (min + k*step, min + k*step + d), the targets it was taken at
C13_SynchronousPairs ==
  (Constructed /\ measure.class = "synchroScanMeasure") =>
    /\ Len(EmTargets) <= Len(ExTargets)
    /\ \A j \in 1..Len(EmTargets) : EmTargets[j] = ExTargets[j] + measure.em_range.value
    /\ \A p \in 1..Len(wire) :
         IsMoveWrite(wire[p], EmKey) =>
           /\ p > 2
           /\ IsMoveDone(wire[p - 1], ExKey)
           /\ IsMoveWrite(wire[p - 2], ExKey)
           /\ wire[p - 2].cmd[3] + measure.em_range.value = wire[p].cmd[3]
    /\ Len(measured_signal) <= MovesDone(EmKey)
    /\ Len(measured_signal) <= MovesDone(ExKey)
    /\ MovesDone(ExKey) <= Len(measured_signal) + 1
    /\ \A k \in 0..(Len(measured_signal) - 1) :
         saveResultsRow(measure, k) = <<ExTargets[k + 1], EmTargets[k + 1]>>
    /\ \A k \in 0..(Len(measured_signal) - 1) :
         saveResultsRow(measure, k) = <<RMin + k * RStep, RMin + k * RStep + measure.em_range.value>>

C13_Witness ==
  /\ stage = "done"
  /\ measure.class = "synchroScanMeasure"
  /\ measure.em_range.value = SyncOffset
  /\ Len(measured_signal) = 3
  /\ ExTargets = <<RMin, RMin + 1, RMin + 2>>
  /\ EmTargets = <<RMin + SyncOffset, RMin + 1 + SyncOffset, RMin + 2 + SyncOffset>>

\* measure() stands between the two appends of one sample
MidSample ==
  /\ stage = "measuring"
  /\ at <= Len(Statements(measure))
  /\ Statement = ReferenceStmt

\* C14: the two traces have the same length before the first step, after
\* each completed step, at every point of a step but between its two
\* appends, and when measure() has ended, by returning or by raising
C14_TracesEqualLength ==
  IF MidSample THEN Len(measured_signal) = Len(reference_signal) + 1
  ELSE Len(measured_signal) = Len(reference_signal)

C14_Witness ==
  /\ stage = "failed"
  /\ outcome.kind = "TimeoutError"
  /\ Len(measured_signal) = 2
  /\ Len(reference_signal) = 2

C19_RangesWellFormed ==
  IsSweep => (RMin < RMax /\ RStep > 0)

\* C20: on each controller's channel a ZERO or a MOVE is written only after
\* the line 'Monochromator Control Initialized' was received on it
C20_HandshakeBeforeCommands ==
  \A p \in 1..Len(wire) :
    (wire[p].io = "out" /\ wire[p].cmd[1] \in {"ZERO", "MOVE"}) =>
      \E q \in 1..(p - 1) :
        wire[q].io = "in" /\ wire[q].key = wire[p].key /\ wire[q].cmd = Handshake

(* ------------------ claims about the order of a scan ------------------- *)
\* the MOVE and SHUTTER commands written so far, each with the controller
\* it went to
Commands ==
  LET outs == SelectSeq(wire, LAMBDA e : e.io = "out" /\ e.cmd[1] \in {"MOVE", "SHUTTER"})
  IN [j \in 1..Len(outs) |-> <<outs[j].key, outs[j].cmd>>]

IsPrefix(a, b) == Len(a) <= Len(b) /\ a = SubSeq(b, 1, Len(a))

IsSingular == Constructed /\ measure.class = "uniqueWLMeasure"

SingularMoves ==
  << <<ExKey, <<"MOVE", "WL", measure.ex_range.value>>>>,
     <<EmKey, <<"MOVE", "WL", measure.em_range.value>>>> >>
ShutterCommands(pos) == << <<ExKey, <<"SHUTTER", " ", pos>>>>, <<EmKey, <<"SHUTTER", " ", pos>>>> >>

\* C22 (as stated): a single-point measurement opens both shutters, sets the
\* resolution, moves both controllers, samples once and closes both
\* shutters, so that both shutters are open before the first MOVE is written
C22_SingularShuttersBeforeMoves ==
  IsSingular =>
    /\ IsPrefix(Commands, ShutterCommands("OPEN") \o SingularMoves \o ShutterCommands("CLOSE"))
    /\ Len(measured_signal) <= 1
    /\ stage = "done" => Len(Commands) = 6 /\ Len(measured_signal) = 1

\* C22 (amended): a single-point measurement moves the excitation and then
\* the emission controller to their targets, each move acknowledged before
\* the next command, then sets the resolution on both controllers, then
\* opens both shutters, takes one sample pair and closes both shutters; a
\* resolution change that fails ends it with both moves made and no shutter
\* command written
C22_SingularMovesBeforeShutters ==
  IsSingular =>
    /\ IsPrefix(Commands, SingularMoves \o ShutterCommands("OPEN") \o ShutterCommands("CLOSE"))
    /\ \A p \in 1..(Len(wire) - 1), key \in {ExKey, EmKey} :
         IsMoveWrite(wire[p], key) => IsMoveDone(wire[p + 1], key)
    /\ Len(Commands) > 2 => (MovesDone(ExKey) = 1 /\ MovesDone(EmKey) = 1)
    /\ Len(measured_signal) <= 1
    /\ Len(reference_signal) <= 1
    /\ Len(measured_signal) = 1 => Len(Commands) >= 4
    /\ Len(Commands) >= 5 => (Len(measured_signal) = 1 /\ Len(reference_signal) = 1)
    /\ (stage = "failed" /\ outcome = AttributeFault) => Commands = SingularMoves
    /\ stage = "done" =>
         /\ Len(Commands) = 6
         /\ Len(measured_signal) = 1
         /\ Len(reference_signal) = 1

C22_Witness ==
  /\ IsSingular
  /\ stage = "done"
  /\ Commands = SingularMoves \o ShutterCommands("OPEN") \o ShutterCommands("CLOSE")
  /\ Len(measured_signal) = 1

\* where in Commands the shutter command `pos` went to controller `key`
ShutterAt(key, pos) ==
  {j \in 1..Len(Commands) : Commands[j] = <<key, <<"SHUTTER", " ", pos>>>>}
\* where in Commands the moves of the sweep are
SweepMovesAt ==
  {j \in 1..Len(Commands) :
     /\ Commands[j][2][1] = "MOVE"
     /\ (Commands[j][1] = SweptKey \/ measure.class = "synchroScanMeasure")}

\* C23: in a sweep each controller is asked SHUTTER OPEN at most once, before
\* the first move of the sweep, and SHUTTER CLOSE at most once, after the
\* last sample is recorded; a sweep that completes has asked each exactly
\* once to each controller; no line is read in answer to a shutter command
C23_ShuttersOnceAroundSweep ==
  IsSweep =>
    /\ \A key \in {ExKey, EmKey} :
         /\ Cardinality(ShutterAt(key, "OPEN")) <= 1
         /\ Cardinality(ShutterAt(key, "CLOSE")) <= 1
         /\ \A j \in SweepMovesAt :
              /\ \E o \in ShutterAt(key, "OPEN") : o < j
              /\ \A c \in ShutterAt(key, "CLOSE") : c > j
         /\ ShutterAt(key, "CLOSE") # {} =>
              /\ Len(measured_signal) = Len(SweepValues(SweptRange))
              /\ Len(reference_signal) = Len(SweepValues(SweptRange))
         /\ stage = "done" =>
              /\ Cardinality(ShutterAt(key, "OPEN")) = 1
              /\ Cardinality(ShutterAt(key, "CLOSE")) = 1
    /\ \A p \in 1..(Len(wire) - 1) :
         (wire[p].io = "out" /\ wire[p].cmd[1] = "SHUTTER") => wire[p + 1].io = "out"

C23_Witness ==
  /\ IsSweep
  /\ stage = "done"
  /\ measure.class = "EmScanMeasure"
  /\ Len(measured_signal) = 2
  /\ Len(Commands) = 7
  /\ ShutterAt(EmKey, "OPEN") = {3}
  /\ ShutterAt(EmKey, "CLOSE") = {7}

\* the sweep step measure() is in: the moves of the swept axis it has got to
SweepStep ==
  Cardinality({j \in 1..at :
                 /\ Statements(measure)[j].do = "moveToWaveLength"
                 /\ Statements(measure)[j].who =
                      (IF measure.class = "EmScanMeasure" THEN "em" ELSE "ex")
                 /\ \E a \in 1..(j - 1) : Statements(measure)[a].do = "arange"})

\* measure() has raised out of a move of a sweep step
FailedInSweepMove ==
  /\ IsSweep
  /\ stage = "failed"
  /\ Statement.do = "moveToWaveLength"
  /\ SweepStep >= 1

\* C26: while measure() runs each trace only grows at its end, and when a
\* move of sweep step k fails both traces hold the k - 1 sample pairs of
\* the steps before it
C26_TracesKeptOnFailure ==
  /\ [][stage = "measuring" =>
          /\ IsPrefix(measured_signal, measured_signal')
          /\ IsPrefix(reference_signal, reference_signal')]_vars
  /\ [](FailedInSweepMove =>
          /\ Len(measured_signal) = SweepStep - 1
          /\ Len(reference_signal) = SweepStep - 1)

C26_Witness ==
  /\ FailedInSweepMove
  /\ measure.class = "synchroScanMeasure"
  /\ Statement.who = "em"
  /\ SweepStep = 3
  /\ Len(measured_signal) = 2
  /\ outcome.kind = "RuntimeError"

(* ======================================================================= *)
(* Calibrations that are not whole numbers: the conversions in binary      *)
(* floating point. A float is n / 2^FracBits with at most FloatBits         *)
(* significant bits in n (53 in the code's doubles); every operation        *)
(* rounds its exact result to the nearest such number, ties to even.        *)
(* ======================================================================= *)
FloatBits == 4
FracBits == 4
One == 2^FracBits

RECURSIVE Exponent(_, _, _)
\* the least e with a / (d * 2^e) below 2^FloatBits
Exponent(a, d, e) ==
  IF a \div (d * 2^e) >= 2^FloatBits THEN Exponent(a, d, e + 1) ELSE e

\* the float nearest to a / d: the magnitude rounded to FloatBits
\* significant bits, ties to even
FRound(a, d) ==
  LET n == Abs(a)
      e == Exponent(n, Abs(d), 0)
      dd == Abs(d) * 2^e
      m == n \div dd
      r == n % dd
      mag == (IF 2 * r > dd \/ (2 * r = dd /\ m % 2 = 1) THEN m + 1 ELSE m) * 2^e
  IN IF (a < 0) # (d < 0) THEN -mag ELSE mag

FAdd(x, y) == FRound(x + y, 1)
FSub(x, y) == FRound(x - y, 1)
FMul(x, y) == FRound(x * y, One)
FDiv(x, y) == FRound(x * One, y)
\* an int operand of a float operation, and int() of a float
FromInt(k) == FRound(k * One, 1)
ToInt(x) == TruncDiv(x, One)

RECURSIVE SinSeries(_, _, _)
\* x - x^3/3! + x^5/5! - ... from the term t of order k on, for x = n/One >= 0,
\* in fixed point with 14 fraction bits
SinSeries(n, t, k) ==
  IF t = 0 \/ k > 15 THEN 0
  ELSE t - SinSeries(n, ((((t * n) \div One) * n) \div One) \div ((k + 1) * (k + 2)), k + 2)

\* math.sin
Sin(x) ==
  LET sum == SinSeries(Abs(x), Abs(x) * (2^14 \div One), 1)
  IN IF x < 0 THEN -FRound(sum * One, 2^14) ELSE FRound(sum * One, 2^14)

\* math.asin raises ValueError outside [-1, 1]
AsinRaises(x) == Abs(x) > One
\* int(math.asin(x)) for x in [-1, 1]: asin(x) reaches 1 at x = sin(1) = 0.841470...
TruncAsin(x) ==
  IF x * 1000000 >= 841471 * One THEN 1
  ELSE IF x * 1000000 <= -841471 * One THEN -1
  ELSE 0

(* the converting classes, with float calibrations *)
Unit(class, offsetValue, coefValue, phaseValue, lo, hi, at0) ==
  [class |-> class, wLOffset |-> WaveLength(offsetValue), wLCoef |-> coefValue,
   phase |-> phaseValue, minWLStep |-> lo, maxWLStep |-> hi, wLStep |-> at0]

MonochromatorA_getWaveLengthFromStep(u, s) ==
  WaveLength(FAdd(u.wLOffset.value, FMul(u.wLCoef, FromInt(s))))

MonochromatorA_getStepFromWL(u, wl) ==
  ToInt(FDiv(FSub(wl.value, u.wLOffset.value), u.wLCoef))

Slit_getValueFromStep(u, s) ==
  WaveLength(FAdd(u.wLOffset.value, FMul(u.wLCoef, FromInt(s))))

Slit_getStepFromValue(u, v) ==
  ToInt(FDiv(FSub(v.value, u.wLOffset.value), u.wLCoef))

MonochromatorB_getWaveLengthFromStep(u, s) ==
  WaveLength(FAdd(u.wLOffset.value, FMul(u.wLCoef, Sin(FMul(u.phase, FromInt(s))))))

\* the argument MonochromatorB.getStepFromWL hands to asin
NormalizedArgument(u, wl) == FDiv(FSub(wl.value, u.wLOffset.value), u.wLCoef)

\* an asin that never raises
MonochromatorB_RaisesNever(u, wl) == FALSE

MonochromatorB_Raises(u, wl) == AsinRaises(NormalizedArgument(u, wl))

MonochromatorB_getStepFromWL(u, wl) ==
  IF NormalizedArgument(u, wl) > One THEN TruncAsin(One)
  ELSE IF NormalizedArgument(u, wl) < -One THEN TruncAsin(-One)
  ELSE TruncAsin(NormalizedArgument(u, wl))

\* the unit's own conversions
WaveLengthFromStep(u, s) ==
  CASE u.class = "MonochromatorA" -> MonochromatorA_getWaveLengthFromStep(u, s)
    [] u.class = "MonochromatorB" -> MonochromatorB_getWaveLengthFromStep(u, s)
    [] u.class = "Slit" -> Slit_getValueFromStep(u, s)
StepFromWLRaises(u, wl) == u.class = "MonochromatorB" /\ MonochromatorB_Raises(u, wl)
StepFromWL(u, wl) ==
  CASE u.class = "MonochromatorA" -> MonochromatorA_getStepFromWL(u, wl)
    [] u.class = "MonochromatorB" -> MonochromatorB_getStepFromWL(u, wl)
    [] u.class = "Slit" -> Slit_getStepFromValue(u, wl)

\* the calibrations tried: offsets, coefficients and phases
KinCalibrations ==
  [offset : {0, One \div 2, 3 * One},
   coef : {One \div 4, (7 * One) \div 8, One, -((3 * One) \div 2)},
   phase : {One \div 4, One \div 2, One}]
KinStepLo == 2
KinStepHi == 3

Units ==
  { Unit(class, FRound(c.offset, 1), FRound(c.coef, 1),
         IF class = "MonochromatorB" THEN FRound(c.phase, 1) ELSE 0, lo, KinStepHi, 0) :
      class \in {"MonochromatorA", "MonochromatorB", "Slit"},
      c \in KinCalibrations, lo \in {-KinStepLo, 0} }

InitKin ==
  /\ unit \in Units
  /\ trip = <<>>
  /\ channel = <<>>

\* getStepFromWL(getWaveLengthFromStep(s)) for a step within the bounds
RoundTrip(s) ==
  /\ unit # <<>>
  /\ s \in unit.minWLStep..unit.maxWLStep
  /\ LET wl == WaveLengthFromStep(unit, s)
         raised == StepFromWLRaises(unit, wl)
     IN trip' = [op |-> "roundtrip", s |-> s, wl |-> wl, raised |-> raised,
                 back |-> IF raised THEN 0 ELSE StepFromWL(unit, wl)]
  /\ channel' = <<>>
  /\ UNCHANGED <<port, unit, bench, config, axis, slitConfig, slit, call>>

\* moveToWaveLength(wL) on a controller, to its end
KinMoveToWaveLength(wL, ending) ==
  /\ unit # <<>>
  /\ unit.class # "Slit"
  /\ IF StepFromWLRaises(unit, wL)
       THEN /\ trip' = [op |-> "moveToWaveLength", wl |-> wL, ended |-> DomainFault]
            /\ channel' = <<>>
            /\ unit' = unit
       ELSE LET target == StepFromWL(unit, wL) IN
            IF target < unit.minWLStep \/ target > unit.maxWLStep
              THEN /\ trip' = [op |-> "moveToWaveLength", wl |-> wL, ended |-> BenchRangeFault]
                   /\ channel' = <<>>
                   /\ unit' = unit
              ELSE /\ trip' = [op |-> "moveToWaveLength", wl |-> wL, ended |-> ending]
                   /\ channel' = <<MoveCmd("WL", MoveStepCount(unit.wLStep, target),
                                           MoveDirection(unit.wLStep, target))>>
                   /\ unit' = IF ending = Returned THEN [unit EXCEPT !.wLStep = target]
                              ELSE unit
  /\ UNCHANGED <<port, bench, config, axis, slitConfig, slit, call>>

NextKin ==
  \/ \E s \in (-KinStepLo)..KinStepHi : RoundTrip(s)
  \/ \E wL \in {(k * One) \div 2 : k \in (-3)..6}, ending \in MoveEndings :
       KinMoveToWaveLength(WaveLength(FRound(wL, 1)), ending)

InitKinUnit == ParkedAxis /\ ParkedSlit /\ NoCall /\ ParkedBench /\ InitKin /\ ParkedPort

SpecKin == InitKinUnit /\ [][NextKin]_vars

(* ---------------------- claims about conversions ----------------------- *)
\* C16: with the linear model (controller A and the slit bank), any offset
\* and any non-zero coefficient, the step recovered from the wavelength of a
\* step s within the bounds is s
C16_LinearRoundTrip ==
  (trip # <<>> /\ trip.op = "roundtrip" /\ unit.class \in {"MonochromatorA", "Slit"}) =>
    trip.back = trip.s

\* C17: a moveToWaveLength on a sinusoidal controller whose target has its
\* normalized argument (wavelength - offset)/coeff outside [-1, 1] raises
\* ValueError from the conversion, writes nothing and leaves the step as it was
C17_DomainErrorWritesNothing ==
  [][(/\ trip'.op = "moveToWaveLength"
      /\ unit.class = "MonochromatorB"
      /\ Abs(NormalizedArgument(unit, trip'.wl)) > One) =>
       /\ trip'.ended.kind = "ValueError"
       /\ trip'.ended = DomainFault
       /\ channel' = <<>>
       /\ unit'.wLStep = unit.wLStep]_vars

C17_Witness ==
  /\ trip # <<>>
  /\ unit.class = "MonochromatorB"
  /\ trip.op = "moveToWaveLength"
  /\ Abs(NormalizedArgument(unit, trip.wl)) > One
  /\ trip.ended = DomainFault
  /\ channel = <<>>

\* phase * s lies within [-pi/2, pi/2]
Invertible(u, s) == Abs(u.phase * s) * 1000000 <= 1570796 * One

\* C18: with the sinusoidal model, the step recovered from the wavelength
\* of a step s with |phase * s| <= pi/2 is s
C18_SinusoidalRoundTrip ==
  (/\ trip # <<>>
   /\ trip.op = "roundtrip"
   /\ unit.class = "MonochromatorB"
   /\ Invertible(unit, trip.s)) =>
    (~trip.raised /\ trip.back = trip.s)

(* ======================================================================= *)
(* A measurement object measured more than once: measure() is a public      *)
(* method and may be called again by whoever holds the object.             *)
(* ======================================================================= *)
MaxCalls == 2

\* measure() called on a measurement whose measure() has returned or raised:
\* the method starts at its first statement, on the traces it finds
MeasureAgain ==
  /\ stage \in {"done", "failed"}
  /\ calls < MaxCalls
  /\ stage' = "measuring"
  /\ at' = 1
  /\ outcome' = Running
  /\ calls' = calls + 1
  /\ UNCHANGED <<monochromators, measure, measured_signal, reference_signal, wire>>
  /\ UNCHANGED <<port, kin, config, axis, slitConfig, slit, call>>

NextReuse ==
  \/ NextBench
  \/ MeasureAgain

SpecReuse == InitBenchRun /\ [][NextReuse]_vars

\* C21: once measure() has returned or raised, a further call of measure()
\* on the same object writes no command and appends no sample
C21_SecondCallDoesNothing ==
  [][calls >= 2 =>
       /\ wire' = wire
       /\ measured_signal' = measured_signal
       /\ reference_signal' = reference_signal]_vars


(* ------------------- a channel that answers late ----------------------- *)
\* the moves a run is followed for
MaxAsked == 3

\* the line the device writes when it has finished a MOVE
DoneLine == <<"MOVE", ",", "DONE", "\n">>

\* the axis once initMotors has returned: zeroed, the motor at its zero,
\* nothing written and nothing waiting
InitLate ==
  /\ minWLStep = 0
  /\ maxWLStep = StepHi
  /\ wLOffset = WaveLength(wLOffsetValue)
  /\ wLCoef = wLCoefValue
  /\ wLStep = ZeroStep
  /\ wLValue = ZeroValue
  /\ newWLStep = 0
  /\ devPos = 0
  /\ zeroed = TRUE
  /\ cleanRun = TRUE
  /\ ParkedSlit /\ NoCall /\ ParkedBench /\ ParkedKin /\ ParkedPort

\* moveToWaveLength up to its polling loop: the command is written and the
\* input buffer is left as it is
LateMoveCall(wl) ==
  /\ pc = "idle"
  /\ asked < MaxAsked
  /\ op' = "moveToWaveLength"
  /\ LET target == getStepFromWL(WaveLength(wl))
         cmd == MoveCmd("WL", MoveStepCount(wLStep, target),
                        MoveDirection(wLStep, target))
     IN IF OutOfBounds(target)
        THEN /\ EndCall(RangeFault(target))
             /\ callWrites' = <<>>
             /\ UNCHANGED <<backlog, asked>>
        ELSE /\ arg' = WaveLength(wl)
             /\ newWLStep' = target
             /\ callWrites' = <<cmd>>
             /\ backlog' = Append(backlog, [tag |-> asked + 1, cmd |-> cmd])
             /\ asked' = asked + 1
             /\ elapsed' = 0
             /\ pc' = "move"
             /\ result' = Running
  /\ UNCHANGED <<inbox, ackOf, devPos>>
  /\ UNCHANGED <<kin, bench, config, slitConfig, slit, wLStep, wLValue, zeroed, cleanRun>>

\* the device finishes its oldest command and answers it, however long ago
\* the command was written
DeviceDone ==
  /\ backlog # <<>>
  /\ devPos' = DeviceExec(devPos, Head(backlog).cmd)
  /\ backlog' = Tail(backlog)
  /\ inbox' = Append(inbox, [tag |-> Head(backlog).tag, line |-> DoneLine])
  /\ UNCHANGED <<asked, ackOf>>
  /\ UNCHANGED <<kin, bench, config, slitConfig, slit, call, wLStep, wLValue,
                 zeroed, cleanRun, newWLStep>>

\* one round of moveToWaveLength's polling loop: readline() gives the oldest
\* line of the buffer, or nothing after its one-second timeout
LatePoll ==
  /\ pc = "move"
  /\ ~DeadlinePassed(elapsed)
  /\ IF inbox = <<>>
     THEN KeepWaiting /\ UNCHANGED <<inbox, ackOf>>
     ELSE /\ inbox' = Tail(inbox)
          /\ LET r == MoveLineResult(Strip(Head(inbox).line)) IN
               IF r = Running THEN KeepWaiting /\ UNCHANGED ackOf
               ELSE IF r = Returned
               THEN /\ wLStep' = newWLStep
                    /\ wLValue' = updateWaveLength(newWLStep, arg)
                    /\ EndCall(Returned)
                    /\ ackOf' = Head(inbox).tag
                    /\ UNCHANGED <<zeroed, cleanRun>>
               ELSE Raise(r) /\ UNCHANGED ackOf
  /\ UNCHANGED <<backlog, asked>>
  /\ UNCHANGED <<kin, bench, config, slitConfig, slit, op, callWrites, devPos>>

NextLate ==
  \/ \E wl \in Targets : LateMoveCall(wl)
  \/ DeviceDone
  \/ LatePoll
  \/ MoveDeadline

SpecLate == InitLate /\ [][NextLate]_vars

\* C30: a move returns only on the answer to its own command, so after a
\* successful move the step held is the position of the motor
C30_AckOfOwnCommand ==
  (pc = "idle" /\ op = "moveToWaveLength" /\ result = Returned)
    => /\ ackOf = asked
       /\ wLStep = devPos


(* ---------------- every object of a controller, any call --------------- *)
\* a controller as main.py constructs it, with its slit bank, or else a unit
\* with floating-point calibration
InitAny ==
  \/ ParkedAxis /\ ParkedSlit /\ NoCall /\ ParkedBench /\ ParkedKin /\ ParkedPort
  \/ InitKinUnit

\* any call on the axis or on the slit bank of the controller, or any call on
\* the floating-point unit
NextAny ==
  \/ unit = <<>> /\ Next
  \/ unit = <<>> /\ NextSlit
  \/ NextKin

SpecAny == InitAny /\ [][NextAny]_vars

\* how a call can end other than by returning
Failed(r) == r \notin {NoResult, Running, Returned}

\* C31: a zero or a move that fails, for whatever reason, leaves the step and
\* the cached wavelength of the axis as they were before the call, and the
\* shared step and value of the slit bank likewise: no step of a call other
\* than the one that returns changes them, and a move that fails on a unit
\* with floating-point calibration leaves the unit as it was
C31_FailureLeavesStep ==
  /\ [][result' # Returned => UNCHANGED <<wLStep, wLValue, step, value>>]_vars
  /\ [][(pc # "idle" /\ pc' = "idle" /\ Failed(result'))
          => UNCHANGED <<wLStep, wLValue, step, value>>]_vars
  /\ [][(trip' # <<>> /\ trip'.op = "moveToWaveLength" /\ trip'.ended # Returned)
          => unit' = unit]_vars

\* a move that timed out on an axis that an earlier move had taken to step 1
C31_Witness ==
  /\ pc = "idle" /\ op = "moveToWaveLength" /\ result = MoveLocalTimeout
  /\ callWrites = <<MoveCmd("WL", 1, TRUE)>>
  /\ wLStep = 1
  /\ wLValue = getWaveLengthFromStep(1)


\* measure() has raised in a sweep after both SHUTTER OPEN were written
FailedWithShuttersOpen ==
  /\ IsSweep
  /\ stage = "failed"
  /\ \A key \in {ExKey, EmKey} : ShutterAt(key, "OPEN") # {}

\* C32: a sweep that fails after its shutters were opened, in a move or in a
\* resolution change, ends measure() with the error at the failing statement:
\* no SHUTTER CLOSE has been written to either controller, and nothing is
\* written once it has failed
C32_FailedSweepLeavesShuttersOpen ==
  /\ [](FailedWithShuttersOpen =>
          /\ \A key \in {ExKey, EmKey} : ShutterAt(key, "CLOSE") = {}
          /\ Statement.do \in {"moveToWaveLength", "setResolution", "arange"}
          /\ Failed(outcome))
  /\ [](FailedInSweepMove => FailedWithShuttersOpen)
  /\ [][(IsSweep /\ stage = "measuring" /\ Failed(outcome')) => stage' = "failed"]_vars
  /\ [][(IsSweep /\ stage = "failed") => (wire' = wire /\ stage' = "failed")]_vars

\* a sweep whose second step's move was answered with an ERROR line
C32_Witness ==
  /\ FailedWithShuttersOpen
  /\ FailedInSweepMove
  /\ SweepStep = 2
  /\ outcome.kind = "RuntimeError"
  /\ Len(measured_signal) = 1
  /\ Commands[Len(Commands)][2][1] = "MOVE"

====
